---- MODULE Spec2Model ----
(***************************************************************************)
(* Model of stock_tracker.py: one run of main() after another, over the    *)
(* two files the program reads (config.json, data/highs.json), the         *)
(* environment, the price provider and the Telegram endpoint.              *)
(*                                                                         *)
(* Numbers are integers.  The threshold test price <= high * drop_factor   *)
(* is computed in hundredths: price * 100 <= high * (100 - drop_percent).  *)
(* For the prices, highs and percentages used below the float expression   *)
(* of the source gives the same truth value.                               *)
(***************************************************************************)
EXTENDS Integers, Sequences, FiniteSets, TLC

\* Longest "tickers" list of config.json that is explored.
MaxTickers == 2

\* Python's None, for the values that can be None (environment variables).
None == "None"

\* Prices the provider can report, and highs a hand-written highs.json holds.
Prices == {80, 81, 110}

\* Strings that occur as keys, in ASCII (lexicographic) order.
Symbols == <<"AAA", "BBB", "aaa", "bbb">>

\* Entries a "tickers" list of config.json is made of.
RawTickers == {"AAA", "bbb", " "}

\* str.strip()
Strip(s) == IF s = " " THEN "" ELSE s

\* str.upper()
Upper(s) == CASE s = "aaa" -> "AAA"
              [] s = "bbb" -> "BBB"
              [] OTHER -> s

\* Python truthiness of an optional string.
Truthy(s) == s # None /\ s # ""

-----------------------------------------------------------------------------
(* dict[str, float], in insertion order: a sequence of [k, v] with unique k *)

Keys(d) == {d[j].k : j \in DOMAIN d}

Has(d, key) == key \in Keys(d)

Get(d, key) == LET j == CHOOSE j \in DOMAIN d : d[j].k = key IN d[j].v

Put(d, key, val) ==
    IF Has(d, key)
    THEN [j \in DOMAIN d |-> IF d[j].k = key THEN [k |-> key, v |-> val] ELSE d[j]]
    ELSE Append(d, [k |-> key, v |-> val])

\* dict equality (insertion order does not matter)
DictEq(a, b) == Keys(a) = Keys(b) /\ \A key \in Keys(a) : Get(a, key) = Get(b, key)

-----------------------------------------------------------------------------
(* JSON values of highs.json *)

JNum(n) == [t |-> "num", n |-> n, s |-> ""]
JStr(s) == [t |-> "str", n |-> 0, s |-> s]

\* float(value): a number, a numeric string, or ValueError/TypeError
float(value) ==
    IF value.t = "num" THEN [ok |-> TRUE, val |-> value.n]
    ELSE IF value.s = "100" THEN [ok |-> TRUE, val |-> 100]
    ELSE [ok |-> FALSE, val |-> 0]

\* The file data/highs.json: absent, or JSON that is an object or is not.
NoFile == [exists |-> FALSE, object |-> FALSE, members |-> <<>>]
NotAnObject == [exists |-> TRUE, object |-> FALSE, members |-> <<>>]
JObject(members) == [exists |-> TRUE, object |-> TRUE, members |-> members]

-----------------------------------------------------------------------------
(* load_config *)

NormTickers(raw) ==
    LET kept == SelectSeq(raw, LAMBDA t : Strip(t) # "")
    IN  [j \in 1..Len(kept) |-> Upper(Strip(kept[j]))]

DefaultDropPercent == 20

drop_percent_of(data) ==
    IF data.has_drop_percent THEN data.drop_percent ELSE DefaultDropPercent

\* Variant: the bounds of the range are accepted.
drop_percent_ok_closed(dp) == 0 <= dp /\ dp <= 100

drop_percent_ok(dp) == 0 < dp /\ dp < 100

load_config(data) ==
    LET ts == NormTickers(data.tickers)
        dp == drop_percent_of(data)
    IN  IF ts = <<>> THEN [ok |-> FALSE, tickers |-> <<>>, drop_percent |-> 0]
        ELSE IF ~drop_percent_ok(dp) THEN [ok |-> FALSE, tickers |-> <<>>, drop_percent |-> 0]
        ELSE [ok |-> TRUE, tickers |-> ts, drop_percent |-> dp]

-----------------------------------------------------------------------------
(* load_highs / save_highs *)

\* str.lower()
Lower(s) == CASE s = "AAA" -> "aaa"
              [] s = "BBB" -> "bbb"
              [] OTHER -> s

\* Variant: keys are normalised to lower case.
RECURSIVE load_entries_lower(_, _)
load_entries_lower(members, acc) ==
    IF members = <<>> THEN acc
    ELSE LET e == Head(members)
             fl == float(e.v)
         IN  load_entries_lower(Tail(members),
                                IF fl.ok THEN Put(acc, Lower(e.k), fl.val) ELSE acc)

RECURSIVE load_entries(_, _)
load_entries(members, acc) ==
    IF members = <<>> THEN acc
    ELSE LET e == Head(members)
             fl == float(e.v)
         IN  load_entries(Tail(members),
                          IF fl.ok THEN Put(acc, Upper(e.k), fl.val) ELSE acc)

load_highs(f) ==
    IF ~f.exists THEN [ok |-> TRUE, highs |-> <<>>]
    ELSE IF ~f.object THEN [ok |-> FALSE, highs |-> <<>>]
    ELSE [ok |-> TRUE, highs |-> load_entries(f.members, <<>>)]

\* sorted(highs)
sorted(d) == SelectSeq(Symbols, LAMBDA s : s \in Keys(d))

save_highs(d) ==
    LET ks == sorted(d)
    IN  JObject([j \in 1..Len(ks) |-> [k |-> ks[j], v |-> JNum(Get(d, ks[j]))]])

-----------------------------------------------------------------------------
(* fetch_price *)

\* What the provider answers for one ticker: fast is the fast quote's
\* last_price (0: fast_info raised, is empty, or holds no truthy last_price),
\* history the closes of the last five days.
Responses ==
    {[fast |-> f, history |-> <<>>] : f \in {0} \cup Prices}
        \cup {[fast |-> 0, history |-> <<80, p>>] : p \in Prices}

fetch_price(resp) ==
    IF resp.fast # 0 THEN [ok |-> TRUE, price |-> resp.fast]
    ELSE IF resp.history = <<>> THEN [ok |-> FALSE, price |-> 0]
    ELSE [ok |-> TRUE, price |-> resp.history[Len(resp.history)]]

-----------------------------------------------------------------------------
(* send_telegram_message *)

\* What requests.post does: a 2xx response, another status, or an exception
\* (connection error, timeout).
HttpOutcomes == {"ok", "error", "raise"}

\* Variant: the message is skipped only when both values are missing.
send_telegram_message_both(tok, chat, http) ==
    IF ~Truthy(tok) /\ ~Truthy(chat)
    THEN [posted |-> FALSE, raised |-> FALSE, ok |-> FALSE]
    ELSE IF http = "raise" THEN [posted |-> TRUE, raised |-> TRUE, ok |-> FALSE]
    ELSE [posted |-> TRUE, raised |-> FALSE, ok |-> (http = "ok")]

send_telegram_message(tok, chat, http) ==
    IF ~Truthy(tok) \/ ~Truthy(chat)
    THEN [posted |-> FALSE, raised |-> FALSE, ok |-> FALSE]
    ELSE IF http = "raise" THEN [posted |-> TRUE, raised |-> TRUE, ok |-> FALSE]
    ELSE [posted |-> TRUE, raised |-> FALSE, ok |-> (http = "ok")]

NoSend == [posted |-> FALSE, raised |-> FALSE, ok |-> FALSE]

-----------------------------------------------------------------------------
(* main: the body of the loop over tickers *)

\* Variant: any price other than the high replaces it.
is_new_high_differs(price, high) == price # high

is_new_high(price, high) == price > high

\* price <= high * drop_factor, with drop_factor = 1 - drop_percent / 100.0
\* Variant: the boundary is exclusive.
alert_due_strict(price, high, dp) == price * 100 < high * (100 - dp)

alert_due(price, high, dp) == price * 100 <= high * (100 - dp)

\* Variant: a failed fetch is not skipped, its price counts as 0.
branch_no_skip(h, t, f, dp) ==
    IF ~Has(h, t) THEN "initial"
    ELSE IF is_new_high(f.price, Get(h, t)) THEN "new_high"
    ELSE IF alert_due(f.price, Get(h, t), dp) THEN "alert"
    ELSE "steady"

branch(h, t, f, dp) ==
    IF ~f.ok THEN "skip"
    ELSE IF ~Has(h, t) THEN "initial"
    ELSE IF is_new_high(f.price, Get(h, t)) THEN "new_high"
    ELSE IF alert_due(f.price, Get(h, t), dp) THEN "alert"
    ELSE "steady"

\* Variant: an alert resets the high to the current price.
highs_after_alert_resets(h, t, price, br) ==
    IF br \in {"initial", "new_high", "alert"} THEN Put(h, t, price) ELSE h

\* Variant: a first-seen ticker is not recorded.
highs_after_known_only(h, t, price, br) ==
    IF br = "new_high" THEN Put(h, t, price) ELSE h

highs_after(h, t, price, br) ==
    IF br \in {"initial", "new_high"} THEN Put(h, t, price) ELSE h

\* Variant: an initial high does not mark the table as updated.
dirty_after_new_high_only(dirty, br) ==
    IF br = "new_high" THEN TRUE ELSE dirty

dirty_after(dirty, br) ==
    IF br \in {"initial", "new_high"} THEN TRUE ELSE dirty

-----------------------------------------------------------------------------
VARIABLES
    config,         \* config.json, parsed
    environ,        \* TELEGRAM_BOT_TOKEN and TELEGRAM_CHAT_ID
    file,           \* data/highs.json
    pc,             \* where main() is
    tickers, drop_percent, highs, updated_highs, token, chat_id,
    idx,            \* position of the for loop in tickers
    file0,          \* data/highs.json when the run started
    highs0,         \* highs as load_highs returned it
    fetched,        \* the result of fetch_price in each iteration so far
    last,           \* the state before the last iteration of the loop
    written,        \* tickers t for which highs[t] was assigned in this run
    alerts,         \* the calls of send_telegram_message in this run
    posts,          \* the calls of requests.post in this run
    saves           \* the calls of save_highs in this run

vars == <<config, environ, file, pc, tickers, drop_percent, highs, updated_highs,
          token, chat_id, idx, file0, highs0, fetched, last, written, alerts,
          posts, saves>>

RECURSIVE SeqsUpTo(_, _)
SeqsUpTo(S, n) ==
    IF n = 0 THEN {<<>>}
    ELSE LET shorter == SeqsUpTo(S, n - 1)
         IN  shorter \cup {Append(q, x) : q \in shorter, x \in S}

Configs ==
    {[tickers |-> ts, has_drop_percent |-> hd, drop_percent |-> dp] :
        ts \in SeqsUpTo(RawTickers, MaxTickers),
        hd \in BOOLEAN, dp \in {0, 10, 100, 150}}

Environs == {[token |-> a, chat_id |-> b] : a \in {None, "tok"}, b \in {"", "chat"}}

InitFiles ==
    { NoFile,
      NotAnObject,
      JObject(<<[k |-> "AAA", v |-> JNum(100)]>>),
      JObject(<<[k |-> "bbb", v |-> JStr("100")], [k |-> "AAA", v |-> JStr("x")]>>),
      JObject(<<[k |-> "aaa", v |-> JNum(110)], [k |-> "AAA", v |-> JNum(80)]>>) }

NoLast == [idx |-> 0, ticker |-> "", fetch |-> [ok |-> FALSE, price |-> 0],
           highs |-> <<>>, dirty |-> FALSE, nalerts |-> 0, posts |-> 0]

Locals0 ==
    /\ pc = "start"
    /\ tickers = <<>>
    /\ drop_percent = 0
    /\ highs = <<>>
    /\ updated_highs = FALSE
    /\ token = None
    /\ chat_id = None
    /\ idx = 0
    /\ highs0 = <<>>
    /\ fetched = <<>>
    /\ last = NoLast
    /\ written = {}
    /\ alerts = <<>>
    /\ posts = 0
    /\ saves = 0

Init ==
    /\ config \in {c \in Configs : c.has_drop_percent \/ c.drop_percent = 0}
    /\ environ \in Environs
    /\ file \in InitFiles
    /\ file0 = file
    /\ Locals0

\* line 88
LoadConfigStep ==
    /\ pc = "start"
    /\ LET r == load_config(config)
       IN  IF r.ok
           THEN /\ pc' = "load_highs"
                /\ tickers' = r.tickers
                /\ drop_percent' = r.drop_percent
           ELSE /\ pc' = "aborted"
                /\ UNCHANGED <<tickers, drop_percent>>
    /\ UNCHANGED <<config, environ, file, highs, updated_highs, token, chat_id, idx,
                   file0, highs0, fetched, last, written, alerts, posts, saves>>

\* lines 89-93
LoadHighsStep ==
    /\ pc = "load_highs"
    /\ LET r == load_highs(file)
       IN  IF r.ok
           THEN /\ pc' = "loop"
                /\ highs' = r.highs
                /\ highs0' = r.highs
                /\ updated_highs' = FALSE
                /\ token' = environ.token
                /\ chat_id' = environ.chat_id
                /\ idx' = 1
           ELSE /\ pc' = "aborted"
                /\ UNCHANGED <<highs, highs0, updated_highs, token, chat_id, idx>>
    /\ UNCHANGED <<config, environ, file, tickers, drop_percent, file0, fetched,
                   last, written, alerts, posts, saves>>

\* lines 97-128, one iteration
ProcessTicker ==
    /\ pc = "loop"
    /\ idx <= Len(tickers)
    /\ \E resp \in Responses, http \in HttpOutcomes :
        LET t == tickers[idx]
            f == fetch_price(resp)
            br == branch(highs, t, f, drop_percent)
            snd == IF br = "alert" THEN send_telegram_message(token, chat_id, http)
                   ELSE NoSend
        IN  /\ fetched' = Append(fetched, f)
            /\ last' = [idx |-> idx, ticker |-> t, fetch |-> f, highs |-> highs,
                        dirty |-> updated_highs, nalerts |-> Len(alerts),
                        posts |-> posts]
            /\ highs' = highs_after(highs, t, f.price, br)
            /\ updated_highs' = dirty_after(updated_highs, br)
            /\ written' = IF \/ br \in {"initial", "new_high"}
                             \/ highs_after(highs, t, f.price, br) # highs
                          THEN written \cup {t} ELSE written
            /\ alerts' = IF br = "alert"
                         THEN Append(alerts, [ticker |-> t, price |-> f.price,
                                              high |-> Get(highs, t), sent |-> snd.ok])
                         ELSE alerts
            /\ posts' = IF snd.posted THEN posts + 1 ELSE posts
            /\ IF snd.raised
               THEN pc' = "crashed" /\ idx' = idx
               ELSE pc' = "loop" /\ idx' = idx + 1
    /\ UNCHANGED <<config, environ, file, tickers, drop_percent, token, chat_id,
                   file0, highs0, saves>>

\* lines 130-134
Finish ==
    /\ pc = "loop"
    /\ idx > Len(tickers)
    /\ IF updated_highs
       THEN file' = save_highs(highs) /\ saves' = saves + 1
       ELSE UNCHANGED <<file, saves>>
    /\ pc' = "done"
    /\ UNCHANGED <<config, environ, tickers, drop_percent, highs, updated_highs,
                   token, chat_id, idx, file0, highs0, fetched, last, written,
                   alerts, posts>>

\* The scheduler invokes the program again.
NextRun ==
    /\ pc \in {"done", "aborted", "crashed"}
    /\ file0' = file
    /\ pc' = "start"
    /\ tickers' = <<>>
    /\ drop_percent' = 0
    /\ highs' = <<>>
    /\ updated_highs' = FALSE
    /\ token' = None
    /\ chat_id' = None
    /\ idx' = 0
    /\ highs0' = <<>>
    /\ fetched' = <<>>
    /\ last' = NoLast
    /\ written' = {}
    /\ alerts' = <<>>
    /\ posts' = 0
    /\ saves' = 0
    /\ UNCHANGED <<config, environ, file>>

Next == LoadConfigStep \/ LoadHighsStep \/ ProcessTicker \/ Finish \/ NextRun

Spec == Init /\ [][Next]_vars

-----------------------------------------------------------------------------
(* save_highs followed by load_highs, on its own *)

\* Most entries of a mapping that is saved and loaded again.
MaxEntries == 2

RTKeys == {"AAA", "BBB", "aaa"}

Dicts ==
    {d \in SeqsUpTo([k : RTKeys, v : Prices], MaxEntries) :
        \A i, j \in DOMAIN d : i # j => d[i].k # d[j].k}

InitRT ==
    /\ config = [tickers |-> <<"AAA">>, has_drop_percent |-> FALSE, drop_percent |-> 0]
    /\ environ = [token |-> None, chat_id |-> ""]
    /\ file = NoFile
    /\ file0 = NoFile
    /\ pc = "rt_start"
    /\ tickers = <<>>
    /\ drop_percent = 0
    /\ highs = <<>>
    /\ updated_highs = FALSE
    /\ token = None
    /\ chat_id = None
    /\ idx = 0
    /\ highs0 \in Dicts
    /\ fetched = <<>>
    /\ last = NoLast
    /\ written = {}
    /\ alerts = <<>>
    /\ posts = 0
    /\ saves = 0

RTSave ==
    /\ pc = "rt_start"
    /\ file' = save_highs(highs0)
    /\ saves' = saves + 1
    /\ pc' = "rt_saved"
    /\ UNCHANGED <<config, environ, tickers, drop_percent, highs, updated_highs,
                   token, chat_id, idx, file0, highs0, fetched, last, written,
                   alerts, posts>>

RTLoad ==
    /\ pc = "rt_saved"
    /\ load_highs(file).ok
    /\ highs' = load_highs(file).highs
    /\ pc' = "rt_loaded"
    /\ UNCHANGED <<config, environ, file, tickers, drop_percent, updated_highs,
                   token, chat_id, idx, file0, highs0, fetched, last, written,
                   alerts, posts, saves>>

NextRT == RTSave \/ RTLoad

SpecRT == InitRT /\ [][NextRT]_vars

-----------------------------------------------------------------------------
(* Properties *)

\* An iteration of the loop has run in this run; last holds the state before it.
Iterated == last.idx > 0

\* send_telegram_message was called in the last iteration
LastAlerted == Len(alerts) > last.nalerts

\* the tickers for which send_telegram_message was called in this run
AlertedTickers == {alerts[j].ticker : j \in DOMAIN alerts}

NoRepeats(ts) == \A i, j \in DOMAIN ts : i # j => ts[i] # ts[j]

Max(a, b) == IF a >= b THEN a ELSE b

\* C1: whatever send_telegram_message does on the alert path (credentials
\* missing, a non-success status, an exception raised by the POST), main()
\* goes on with the loop: after an iteration that alerted, the run is at the
\* next ticker or past the loop.
C1_NotificationNeverAborts ==
    (Iterated /\ LastAlerted) => (pc \in {"loop", "done"} /\ idx = last.idx + 1)

\* C2, as stated: in no run (ticker lists with repeated symbols included) is
\* highs[t] written and an alert sent for the same ticker t.
C2_NoWriteAndAlertInRun == written \cap AlertedTickers = {}

\* C2, amended: no iteration both writes highs[t] and sends an alert, and in a
\* run over a ticker list without repeated symbols no ticker has both its high
\* written and an alert sent.
C2_NoWriteAndAlertPerIteration ==
    /\ Iterated => ~(highs # last.highs /\ LastAlerted)
    /\ NoRepeats(tickers) => written \cap AlertedTickers = {}

C2_Witness ==
    /\ pc = "done"
    /\ Len(tickers) = 2
    /\ NoRepeats(tickers)
    /\ written # {}
    /\ AlertedTickers # {}

\* C3: after a successful fetch an alert is sent iff the ticker had a high,
\* the price is not above it and price <= high * (1 - drop_percent / 100);
\* with high 100 and drop_percent 20 a price of 80 alerts, and a price above
\* the threshold and at most the high alerts nothing and changes nothing.
C3_AlertIffAtOrBelowThreshold ==
    (Iterated /\ last.fetch.ok) =>
        LET t == last.ticker
            p == last.fetch.price
            known == Has(last.highs, t)
            high == Get(last.highs, t)
        IN  /\ LastAlerted <=>
                (known /\ ~(p > high) /\ p * 100 <= high * (100 - drop_percent))
            /\ (known /\ p <= high /\ p * 100 > high * (100 - drop_percent))
                 => (~LastAlerted /\ highs = last.highs /\ updated_highs = last.dirty)
            /\ (known /\ high = 100 /\ drop_percent = 20 /\ p = 80) => LastAlerted
            /\ (known /\ high = 100 /\ drop_percent = 20 /\ p > 80 /\ p <= 100)
                 => (~LastAlerted /\ highs = last.highs)

C3_Witness ==
    /\ Iterated
    /\ last.fetch.ok
    /\ last.fetch.price = 80
    /\ Has(last.highs, last.ticker)
    /\ Get(last.highs, last.ticker) = 100
    /\ drop_percent = 20
    /\ LastAlerted

\* C4: save_highs is not called before the loop has ended; at the end of the
\* loop it has been called once if some iteration wrote highs[t] and not at
\* all otherwise, and then highs.json is as it was.
C4_SaveOnceIffChanged ==
    /\ saves <= 1
    /\ saves > 0 => (pc = "done" /\ idx > Len(tickers))
    /\ saves = 0 => file = file0
    /\ pc = "done" => (saves = 1 <=> written # {})

C4_Witness ==
    /\ pc = "done"
    /\ Len(tickers) = 2
    /\ saves = 1
    /\ file # file0

\* C5: an iteration whose fetch failed leaves highs and the dirty flag as
\* they were, sends no alert and no request, and the loop is at the next
\* ticker.
C5_FetchFailureChangesNothing ==
    (Iterated /\ ~last.fetch.ok) =>
        /\ highs = last.highs
        /\ updated_highs = last.dirty
        /\ ~LastAlerted
        /\ posts = last.posts
        /\ pc \in {"loop", "done"}
        /\ idx = last.idx + 1
        /\ idx <= Len(tickers) => pc = "loop"

C5_Witness ==
    /\ Len(fetched) = 2
    /\ ~fetched[1].ok
    /\ fetched[2].ok
    /\ last.idx = 2
    /\ highs # last.highs

\* config.json is rejected: no ticker is left after normalisation, or
\* drop_percent is not strictly between 0 and 100
ConfigRejected ==
    \/ \A j \in DOMAIN config.tickers : config.tickers[j] = " "
    \/ config.has_drop_percent /\ (config.drop_percent <= 0 \/ config.drop_percent >= 100)

\* highs.json was there when the run started and was not an object
HighsRejected == file0.exists /\ ~file0.object

\* C6: with a rejected config.json or highs.json the run ends in an error
\* before the loop: no price is fetched, no message or request is sent and
\* highs.json is not written.
C6_ConfigErrorsAbort ==
    (ConfigRejected \/ HighsRejected) =>
        /\ pc \in {"start", "load_highs", "aborted"}
        /\ ConfigRejected => pc # "load_highs"
        /\ fetched = <<>>
        /\ alerts = <<>>
        /\ posts = 0
        /\ saves = 0
        /\ file = file0

C6_Witness ==
    /\ pc = "aborted"
    /\ config.has_drop_percent
    /\ config.drop_percent = 100
    /\ config.tickers # <<>>

\* C7: after an iteration that fetched price p for a ticker absent from the
\* table, the table maps the ticker to p, the dirty flag is set and nothing
\* was sent.
C7_FirstSight ==
    (Iterated /\ last.fetch.ok /\ ~Has(last.highs, last.ticker)) =>
        /\ Has(highs, last.ticker)
        /\ Get(highs, last.ticker) = last.fetch.price
        /\ \A key \in Keys(last.highs) :
              Has(highs, key) /\ Get(highs, key) = Get(last.highs, key)
        /\ updated_highs
        /\ ~LastAlerted
        /\ posts = last.posts

C7_Witness ==
    /\ Iterated
    /\ last.fetch.ok
    /\ ~Has(last.highs, last.ticker)
    /\ last.highs # <<>>
    /\ drop_percent = 10
    /\ last.fetch.price = 80

\* a mapping of tickers (upper-case symbols) to positive numbers
WellFormed(d) == \A j \in DOMAIN d : Upper(d[j].k) = d[j].k /\ d[j].v > 0

\* C8: load_highs of what save_highs wrote for a well-formed mapping M is a
\* mapping with M's keys and M's value for each key, in whatever order M's
\* keys were inserted.
C8_RoundTrip ==
    (pc = "rt_loaded" /\ WellFormed(highs0)) => DictEq(highs, highs0)

C8_Witness ==
    /\ pc = "rt_loaded"
    /\ Len(highs0) = 2
    /\ highs0[1].k = "BBB"
    /\ highs0[2].k = "AAA"
    /\ highs # highs0

CredentialsMissing == ~Truthy(environ.token) \/ ~Truthy(environ.chat_id)

\* the table a run has after the fetches fs for the tickers ts, from h: each
\* fetched price becomes the ticker's high if it has none or a lower one
RECURSIVE HighWater(_, _, _, _)
HighWater(h, ts, fs, j) ==
    IF j > Len(fs) THEN h
    ELSE LET t == ts[j]
             h1 == IF ~fs[j].ok THEN h
                   ELSE IF ~Has(h, t) THEN Put(h, t, fs[j].price)
                   ELSE Put(h, t, Max(Get(h, t), fs[j].price))
         IN  HighWater(h1, ts, fs, j + 1)

\* C9: with TELEGRAM_BOT_TOKEN or TELEGRAM_CHAT_ID missing or empty no
\* request is made and every alert is reported as not sent, the run does not
\* end in the loop, and the table and highs.json are what the fetched prices
\* alone determine.
C9_MissingCredentials ==
    CredentialsMissing =>
        /\ posts = 0
        /\ \A j \in DOMAIN alerts : ~alerts[j].sent
        /\ pc # "crashed"
        /\ pc \in {"loop", "done"} =>
              DictEq(highs, HighWater(highs0, tickers, fetched, 1))
        /\ pc = "done" =>
              /\ Len(fetched) = Len(tickers)
              /\ file = IF DictEq(highs, highs0) THEN file0 ELSE save_highs(highs)

C9_Witness ==
    /\ CredentialsMissing
    /\ pc = "done"
    /\ alerts # <<>>
    /\ written # {}
    /\ file # file0

\* every entry of a is in b, with a value that is not lower
NotLowered(a, b) == \A key \in Keys(a) : Has(b, key) /\ Get(b, key) >= Get(a, key)

\* the table highs.json holds, as load_highs reads it
Persisted(f) == IF load_highs(f).ok THEN load_highs(f).highs ELSE <<>>

\* C10: within a run no entry of highs is removed or lowered, and a write
\* creates one entry or strictly raises one; highs.json never loses an entry
\* or holds a lower high than before; after a successful fetch of p the
\* ticker's high is at least p.
C10_Monotonic ==
    [][ /\ (pc = "loop" /\ pc' # "start") =>
              /\ NotLowered(highs, highs')
              /\ highs' # highs =>
                    \E t \in Keys(highs') :
                        /\ ~Has(highs, t) \/ Get(highs', t) > Get(highs, t)
                        /\ \A key \in Keys(highs') \ {t} :
                              Has(highs, key) /\ Get(highs, key) = Get(highs', key)
              /\ (Len(fetched') > Len(fetched) /\ fetched'[Len(fetched')].ok) =>
                    /\ Has(highs', tickers[idx])
                    /\ Get(highs', tickers[idx]) >= fetched'[Len(fetched')].price
        /\ NotLowered(Persisted(file), Persisted(file'))
      ]_vars

C10_Witness ==
    /\ pc = "done"
    /\ Iterated
    /\ Has(last.highs, last.ticker)
    /\ Get(highs, last.ticker) > Get(last.highs, last.ticker)
    /\ file0.exists
    /\ file # file0

====
